---- MODULE Spec2Model ----
(***************************************************************************)
(* Model of the tic-tac-toe bot: the command codec (callback_data.rs), the *)
(* board and the per-session game state machine (game.rs), the keyed       *)
(* session store (concurrent_hash_map.rs) and the callback handler that    *)
(* ties them together (bot.rs).                                            *)
(***************************************************************************)
EXTENDS Integers, Sequences, FiniteSets, TLC

(***************************************************************************)
(* Bounds of the model.                                                    *)
(***************************************************************************)
\* a round is only played while the scores of a session sum to less than this
MaxScore == 1
\* number of concurrently running callback_handler tasks
MaxTask == 2
\* session keys (inline message ids): 1..MaxKey
MaxKey == 2
\* the coordinates of the Place commands that are encoded and decoded: 0..MaxNumber
MaxNumber == 12

(***************************************************************************)
(* game.rs: constants                                                      *)
(***************************************************************************)
BOARD_SIZE == 3

MAX_INDEX == BOARD_SIZE - 1

\* enum Shape; None stands for Option::None of a cell
X == "X"
O == "O"
None == "None"

SHAPES == <<X, O>>

\* WIN_CONDITIONS with the second diagonal written as the first one again
WIN_CONDITIONS_one_diagonal ==
    << << <<0, 0>>, <<0, 1>>, <<0, 2>> >>,
       << <<1, 0>>, <<1, 1>>, <<1, 2>> >>,
       << <<2, 0>>, <<2, 1>>, <<2, 2>> >>,
       << <<0, 1>>, <<1, 1>>, <<2, 1>> >>,
       << <<0, 0>>, <<1, 0>>, <<2, 0>> >>,
       << <<0, 2>>, <<1, 2>>, <<2, 2>> >>,
       << <<0, 0>>, <<1, 1>>, <<2, 2>> >>,
       << <<2, 2>>, <<1, 1>>, <<0, 0>> >> >>

\* BoardIndex(x, y) is the pair <<x, y>>, both 0-based as in the code
WIN_CONDITIONS ==
    << << <<0, 0>>, <<0, 1>>, <<0, 2>> >>,
       << <<1, 0>>, <<1, 1>>, <<1, 2>> >>,
       << <<2, 0>>, <<2, 1>>, <<2, 2>> >>,
       << <<0, 1>>, <<1, 1>>, <<2, 1>> >>,
       << <<0, 0>>, <<1, 0>>, <<2, 0>> >>,
       << <<0, 2>>, <<1, 2>>, <<2, 2>> >>,
       << <<0, 0>>, <<1, 1>>, <<2, 2>> >>,
       << <<2, 0>>, <<1, 1>>, <<0, 2>> >> >>

\* enum GameError, and Ok for Result::Ok(())
Ok == "Ok"
OutOfBounds == "OutOfBounds"
AlreadyOccupied == "AlreadyOccupied"
UnknownIndex == "UnknownIndex"
IllegalState == "IllegalState"
Permission == "Permission"
NoData == "NoData"
UnknownCommand == "UnknownCommand"

GameError ==
    {OutOfBounds, AlreadyOccupied, UnknownIndex, IllegalState, Permission, NoData,
     UnknownCommand}

(***************************************************************************)
(* callback_data.rs: enum CallbackData and its textual form.  A token is   *)
(* the sequence of its characters.                                         *)
(***************************************************************************)
Join == <<"Join">>
Restart == <<"Restart">>
Unknown == <<"Unknown">>
Place(x, y) == <<"Place", x, y>>

Digits == <<"0", "1", "2", "3", "4", "5", "6", "7", "8", "9">>

IsDigit(c) == \E i \in 1..10 : Digits[i] = c

DigitValue(c) == (CHOOSE i \in 1..10 : Digits[i] = c) - 1

\* the decimal form of n, as format!("{n}") writes it
RECURSIVE ToDecimal(_)
ToDecimal(n) ==
    IF n < 10 THEN <<Digits[n + 1]>>
    ELSE ToDecimal(n \div 10) \o <<Digits[(n % 10) + 1]>>

\* to_string writing the coordinates of a Place as y and then x
to_string_yx(data) ==
    CASE data = Join -> <<"j", "o", "i", "n">>
      [] data[1] = "Place" ->
            <<"p", "l", "a", "c", "e", ":">> \o ToDecimal(data[3])
                \o <<":">> \o ToDecimal(data[2])
      [] data = Unknown -> <<"u", "n", "k", "n", "o", "w", "n">>
      [] data = Restart -> <<"r", "e", "s", "t", "a", "r", "t">>

\* impl Display for CallbackData
to_string(data) ==
    CASE data = Join -> <<"j", "o", "i", "n">>
      [] data[1] = "Place" ->
            <<"p", "l", "a", "c", "e", ":">> \o ToDecimal(data[2])
                \o <<":">> \o ToDecimal(data[3])
      [] data = Unknown -> <<"u", "n", "k", "n", "o", "w", "n">>
      [] data = Restart -> <<"r", "e", "s", "t", "a", "r", "t">>

\* str::starts_with
StartsWith(s, prefix) ==
    /\ Len(s) >= Len(prefix)
    /\ SubSeq(s, 1, Len(prefix)) = prefix

\* str::split(":"): the fields between the separators, empty ones included
RECURSIVE Split(_)
Split(s) ==
    IF \A i \in 1..Len(s) : s[i] # ":" THEN <<s>>
    ELSE LET i == CHOOSE k \in 1..Len(s) :
                      s[k] = ":" /\ \A j \in 1..(k - 1) : s[j] # ":"
         IN  <<SubSeq(s, 1, i - 1)>> \o Split(SubSeq(s, i + 1, Len(s)))

RECURSIVE DecimalValue(_)
DecimalValue(s) ==
    IF s = <<>> THEN 0
    ELSE 10 * DecimalValue(SubSeq(s, 1, Len(s) - 1)) + DigitValue(s[Len(s)])

\* str::parse::<usize>: an optional "+" and then one or more digits; -1 for Err
\* (the tokens of the model are too short to overflow a usize)
ParseUsize(s) ==
    LET digits == IF s # <<>> /\ s[1] = "+" THEN Tail(s) ELSE s
    IN  IF digits # <<>> /\ \A i \in 1..Len(digits) : IsDigit(digits[i])
        THEN DecimalValue(digits)
        ELSE -1

\* impl FromStr for CallbackData: [ok |-> TRUE, value |-> data] for Ok(data),
\* [ok |-> FALSE, value |-> e] for Err(e)
FromStr(s) ==
    IF s = <<"j", "o", "i", "n">> THEN [ok |-> TRUE, value |-> Join]
    ELSE IF StartsWith(s, <<"p", "l", "a", "c", "e">>) THEN
        LET split == Tail(Split(s))
            x == IF Len(split) >= 1 THEN ParseUsize(split[1]) ELSE -1
            y == IF Len(split) >= 2 THEN ParseUsize(split[2]) ELSE -1
        IN  IF x < 0 \/ y < 0
            THEN [ok |-> FALSE, value |-> UnknownCommand]
            ELSE [ok |-> TRUE, value |-> Place(x, y)]
    ELSE IF s = <<"r", "e", "s", "t", "a", "r", "t">>
        THEN [ok |-> TRUE, value |-> Restart]
    ELSE [ok |-> TRUE, value |-> Unknown]

(***************************************************************************)
(* game.rs: Board.  board[y + 1][x + 1] is the cell self[y][x] of the code *)
(***************************************************************************)
\* Board::empty
BoardEmpty == [r \in 1..BOARD_SIZE |-> [c \in 1..BOARD_SIZE |-> None]]

\* BoardIndex::new: the index, or OutOfBounds
BoardIndexNew(x, y) ==
    IF x > MAX_INDEX \/ y > MAX_INDEX
    THEN [ok |-> FALSE, value |-> OutOfBounds]
    ELSE [ok |-> TRUE, value |-> <<x, y>>]

\* Board::get_ref
get_ref(board, index) == board[index[2] + 1][index[1] + 1]

\* set_cell that takes the index as <<y, x>>
set_cell_transposed(board, index, shape) ==
    [board EXCEPT ![index[1] + 1][index[2] + 1] = shape]

\* Board::set_cell
set_cell(board, index, shape) ==
    [board EXCEPT ![index[2] + 1][index[1] + 1] = shape]

\* the closure of the reduce in check_win_condition
WinReduce(a, b) ==
    IF a = None THEN None
    ELSE IF b = None THEN None
    ELSE IF a = b THEN a
    ELSE None

\* Board::check_win_condition
check_win_condition(board, condition) ==
    LET RECURSIVE Reduce(_, _)
        Reduce(acc, i) ==
            IF i > Len(condition) THEN acc
            ELSE Reduce(WinReduce(acc, get_ref(board, condition[i])), i + 1)
    IN  IF Len(condition) = 0 THEN None
        ELSE Reduce(get_ref(board, condition[1]), 2)

\* Board::check_winner: find_map over WIN_CONDITIONS, first match wins
check_winner(board) ==
    LET hits == {i \in 1..Len(WIN_CONDITIONS) :
                     check_win_condition(board, WIN_CONDITIONS[i]) # None}
    IN  IF hits = {} THEN None
        ELSE check_win_condition(
                 board, WIN_CONDITIONS[CHOOSE i \in hits : \A j \in hits : i <= j])

\* Board::check_draw
check_draw(board) ==
    \A r \in 1..BOARD_SIZE : \A c \in 1..BOARD_SIZE : board[r][c] # None

(***************************************************************************)
(* game.rs: Game.  A User is modelled by its id; players maps the seated   *)
(* shapes to users and score maps users to their number of wins, both as   *)
(* functions whose domain is the key set of the HashMap.                   *)
(***************************************************************************)
Waiting == <<"Waiting">>
Turn(shape) == <<"Turn", shape>>
Victory(winner) == <<"Victory", winner>>
Draw == <<"Draw">>
Finished(result) == <<"Finished", result>>

\* HashMap::new
EmptyMap == [k \in {} |-> 0]

\* HashMap::insert: the entry of key k is created or overwritten
MapInsert(m, k, v) == [j \in (DOMAIN m) \cup {k} |-> IF j = k THEN v ELSE m[j]]

\* impl Default for Game
GameDefault ==
    [board |-> BoardEmpty, players |-> EmptyMap, score |-> EmptyMap, state |-> Waiting]

\* Result<(), GameError> of a method taking &mut self: the game as the call leaves
\* it (also when it returns an error) and Ok or the error
Return(game, result) == [game |-> game, result |-> result]

\* add_user with the seat and the score written before the sender is compared
\* with the seated users
add_user_insert_first(game, user) ==
    LET free == {i \in 1..Len(SHAPES) : SHAPES[i] \notin DOMAIN game.players}
        shape == SHAPES[CHOOSE i \in free : \A j \in free : i <= j]
        inserted == [game EXCEPT !.score = MapInsert(game.score, user, 0),
                                 !.players = MapInsert(game.players, shape, user)]
    IN  IF free = {} THEN Return(game, IllegalState)
        ELSE IF \E s \in DOMAIN game.players : game.players[s] = user
            THEN Return(inserted, Permission)
        ELSE Return(inserted, Ok)

\* add_user looking for the free shape from the end of SHAPES
add_user_last_shape(game, user) ==
    LET free == {i \in 1..Len(SHAPES) : SHAPES[i] \notin DOMAIN game.players}
        shape == SHAPES[CHOOSE i \in free : \A j \in free : i >= j]
    IN  IF free = {} THEN Return(game, IllegalState)
        ELSE IF \E s \in DOMAIN game.players : game.players[s] = user
            THEN Return(game, Permission)
        ELSE Return([game EXCEPT !.score = MapInsert(game.score, user, 0),
                                 !.players = MapInsert(game.players, shape, user)],
                    Ok)

\* add_user without the comparison of the sender with the seated users
add_user_no_check(game, user) ==
    LET free == {i \in 1..Len(SHAPES) : SHAPES[i] \notin DOMAIN game.players}
        shape == SHAPES[CHOOSE i \in free : \A j \in free : i <= j]
    IN  IF free = {} THEN Return(game, IllegalState)
        ELSE Return([game EXCEPT !.score = MapInsert(game.score, user, 0),
                                 !.players = MapInsert(game.players, shape, user)],
                    Ok)

\* Game::add_user
add_user(game, user) ==
    LET free == {i \in 1..Len(SHAPES) : SHAPES[i] \notin DOMAIN game.players}
        shape == SHAPES[CHOOSE i \in free : \A j \in free : i <= j]
    IN  IF free = {} THEN Return(game, IllegalState)
        ELSE IF \E s \in DOMAIN game.players : game.players[s] = user
            THEN Return(game, Permission)
        ELSE Return([game EXCEPT !.score = MapInsert(game.score, user, 0),
                                 !.players = MapInsert(game.players, shape, user)],
                    Ok)

\* Game::process_callback_waiting
process_callback_waiting(game, q) ==
    IF q.data = <<>> THEN Return(game, NoData)
    ELSE LET parsed == FromStr(q.data[1])
         IN  IF ~parsed.ok THEN Return(game, parsed.value)
             ELSE IF parsed.value # Join THEN Return(game, UnknownCommand)
             ELSE LET added == add_user(game, q.from)
                  IN  IF added.result # Ok THEN added
                      ELSE IF Cardinality(DOMAIN added.game.players) >= 2
                          THEN Return([added.game EXCEPT !.state = Turn(X),
                                                         !.board = BoardEmpty],
                                      Ok)
                      ELSE Return(added.game, Ok)

\* swap_shapes that checks both seats and leaves them as they are
swap_shapes_no_swap(game) ==
    IF X \notin DOMAIN game.players THEN Return(game, IllegalState)
    ELSE IF O \notin DOMAIN game.players THEN Return(game, IllegalState)
    ELSE Return(game, Ok)

\* swap_shapes that copies the user of O into both seats
swap_shapes_copy(game) ==
    IF X \notin DOMAIN game.players THEN Return(game, IllegalState)
    ELSE IF O \notin DOMAIN game.players THEN Return(game, IllegalState)
    ELSE Return([game EXCEPT !.players = [s \in DOMAIN game.players |-> game.players[O]]],
                Ok)

\* Game::swap_shapes: std::ptr::swap of the two values of players, so that the users
\* seated at X and O exchange their seats
swap_shapes(game) ==
    IF X \notin DOMAIN game.players THEN Return(game, IllegalState)
    ELSE IF O \notin DOMAIN game.players THEN Return(game, IllegalState)
    ELSE Return([game EXCEPT !.players =
                     [s \in DOMAIN game.players |->
                          IF s = X THEN game.players[O]
                          ELSE IF s = O THEN game.players[X]
                          ELSE game.players[s]]],
                Ok)

\* reset that swaps the seats and sets Turn(X) over the board of the finished round
reset_keep_board(game) ==
    LET swapped == swap_shapes(game)
    IN  IF swapped.result # Ok THEN swapped
        ELSE Return([swapped.game EXCEPT !.state = Turn(X)], Ok)

\* reset that also starts the score again
reset_clear_score(game) ==
    LET swapped == swap_shapes(game)
    IN  IF swapped.result # Ok THEN swapped
        ELSE Return([swapped.game EXCEPT !.board = BoardEmpty, !.state = Turn(X),
                                         !.score = [u \in DOMAIN @ |-> 0]],
                    Ok)

\* Game::reset (Shape::default() is X)
reset(game) ==
    LET swapped == swap_shapes(game)
    IN  IF swapped.result # Ok THEN swapped
        ELSE Return([swapped.game EXCEPT !.board = BoardEmpty, !.state = Turn(X)], Ok)

\* process_callback_finished that looks at the sender before the command
process_callback_finished_sender_first(game, q) ==
    IF ~\E s \in DOMAIN game.players : game.players[s] = q.from
    THEN Return(game, Permission)
    ELSE IF q.data = <<>> THEN Return(game, NoData)
    ELSE LET parsed == FromStr(q.data[1])
         IN  IF ~parsed.ok THEN Return(game, parsed.value)
             ELSE IF parsed.value # Restart THEN Return(game, UnknownCommand)
             ELSE reset(game)

\* Game::process_callback_finished
process_callback_finished(game, q) ==
    IF q.data = <<>> THEN Return(game, NoData)
    ELSE LET parsed == FromStr(q.data[1])
         IN  IF ~parsed.ok THEN Return(game, parsed.value)
             ELSE IF parsed.value # Restart THEN Return(game, UnknownCommand)
             ELSE IF ~\E s \in DOMAIN game.players : game.players[s] = q.from
                 THEN Return(game, Permission)
             ELSE reset(game)

\* the when! block entering Finished(Victory) without counting the win
resolve_turn_no_score(game, turn_shape) ==
    LET winner == check_winner(game.board)
    IN  IF winner # None
        THEN [game EXCEPT !.state = Finished(Victory(winner))]
        ELSE IF check_draw(game.board)
            THEN [game EXCEPT !.state = Finished(Draw)]
        ELSE [game EXCEPT !.state = Turn(IF turn_shape = O THEN X ELSE O)]

\* the when! block with the draw arm before the winner arm
resolve_turn_draw_first(game, turn_shape) ==
    LET winner == check_winner(game.board)
    IN  IF check_draw(game.board)
        THEN [game EXCEPT !.state = Finished(Draw)]
        ELSE IF winner # None
            THEN LET scored ==
                         IF winner \in DOMAIN game.players
                         THEN LET user == game.players[winner]
                                  old == IF user \in DOMAIN game.score
                                         THEN game.score[user] ELSE 0
                              IN  MapInsert(game.score, user, old + 1)
                         ELSE game.score
                 IN  [game EXCEPT !.score = scored,
                                  !.state = Finished(Victory(winner))]
        ELSE [game EXCEPT !.state = Turn(IF turn_shape = O THEN X ELSE O)]

\* the kiam::when! block of process_callback_turn, entered after set_cell
resolve_turn(game, turn_shape) ==
    LET winner == check_winner(game.board)
    IN  IF winner # None
        THEN LET scored ==
                     IF winner \in DOMAIN game.players
                     THEN LET user == game.players[winner]
                              old == IF user \in DOMAIN game.score
                                     THEN game.score[user] ELSE 0
                          IN  MapInsert(game.score, user, old + 1)
                     ELSE game.score
             IN  [game EXCEPT !.score = scored, !.state = Finished(Victory(winner))]
        ELSE IF check_draw(game.board)
            THEN [game EXCEPT !.state = Finished(Draw)]
        ELSE [game EXCEPT !.state = Turn(IF turn_shape = O THEN X ELSE O)]

\* turn_place that sets the cell without looking at what it holds
turn_place_overwrite(game, turn_shape, q) ==
    IF q.data = <<>> THEN Return(game, NoData)
    ELSE LET parsed == FromStr(q.data[1])
         IN  IF ~parsed.ok THEN Return(game, parsed.value)
             ELSE IF parsed.value[1] # "Place" THEN Return(game, IllegalState)
             ELSE LET index == BoardIndexNew(parsed.value[2], parsed.value[3])
                  IN  IF ~index.ok THEN Return(game, index.value)
                      ELSE Return(
                               resolve_turn(
                                   [game EXCEPT !.board =
                                        set_cell(game.board, index.value, turn_shape)],
                                   turn_shape),
                               Ok)

\* Game::process_callback_turn, from the parse of the query's data on: the command
\* is matched as Place, its index is built and checked, the cell is set and the
\* round is resolved
turn_place(game, turn_shape, q) ==
    IF q.data = <<>> THEN Return(game, NoData)
    ELSE LET parsed == FromStr(q.data[1])
         IN  IF ~parsed.ok THEN Return(game, parsed.value)
             ELSE IF parsed.value[1] # "Place" THEN Return(game, IllegalState)
             ELSE LET index == BoardIndexNew(parsed.value[2], parsed.value[3])
                  IN  IF ~index.ok THEN Return(game, index.value)
                      ELSE IF get_ref(game.board, index.value) # None
                          THEN Return(game, AlreadyOccupied)
                      ELSE Return(
                               resolve_turn(
                                   [game EXCEPT !.board =
                                        set_cell(game.board, index.value, turn_shape)],
                                   turn_shape),
                               Ok)

\* process_callback_turn without the comparison of the sender with the seated user
process_callback_turn_no_permission(game, turn_shape, q) ==
    IF turn_shape \notin DOMAIN game.players THEN Return(game, IllegalState)
    ELSE turn_place(game, turn_shape, q)

\* Game::process_callback_turn: the user seated at the turn's shape is looked up
\* and compared with the sender, then the command is handled
process_callback_turn(game, turn_shape, q) ==
    IF turn_shape \notin DOMAIN game.players THEN Return(game, IllegalState)
    ELSE IF game.players[turn_shape] # q.from THEN Return(game, Permission)
    ELSE turn_place(game, turn_shape, q)

\* Game::process_callback
process_callback(game, q) ==
    CASE game.state = Waiting -> process_callback_waiting(game, q)
      [] game.state[1] = "Turn" -> process_callback_turn(game, game.state[2], q)
      [] game.state[1] = "Finished" -> process_callback_finished(game, q)

(***************************************************************************)
(* The callback queries of the model: q.from is the sender and q.data the  *)
(* optional token, <<>> for None and <<token>> for Some(token).            *)
(***************************************************************************)
\* three identities: enough for two seats and an outsider
Users == {1, 2, 3}

\* the tokens of the commands (every cell of the board, and the first coordinate
\* beyond it on either axis) and three place tokens that do not parse
Tokens ==
    {to_string(Join), to_string(Restart), to_string(Unknown)}
        \cup {to_string(Place(x, y)) : x \in 0..MAX_INDEX, y \in 0..MAX_INDEX}
        \cup {to_string(Place(BOARD_SIZE, 0)), to_string(Place(0, BOARD_SIZE))}
        \cup {<<"p", "l", "a", "c", "e">>, <<"p", "l", "a", "c", "e", ":", "1">>,
              <<"p", "l", "a", "c", "e", ":", "1", ":", "x">>}

Some(v) == <<v>>

Queries == [from : Users, data : {<<>>} \cup {Some(t) : t \in Tokens}]

\* the queries the concurrent handlers are run with
HandlerQueries ==
    [from : Users, data : {Some(to_string(Join)), Some(to_string(Place(0, 0)))}]

Tasks == 1..MaxTask

Keys == 1..MaxKey

(***************************************************************************)
(* State.                                                                  *)
(*   game     one Game driven by a sequence of callback queries (SpecGame) *)
(*   storage  the HashMap of ConcurrentHashMap: key -> index into heap     *)
(*   heap     the Game inside every Arc<Mutex<Game>> allocated so far      *)
(*   owner    for every allocated Mutex, the task holding it, or 0         *)
(*   readers  the tasks holding a read guard of the RwLock                 *)
(*   writer   the task holding the write guard of the RwLock, or 0         *)
(*   task     per callback_handler task: its position pc, the key of its   *)
(*            query, the Arc it got (value, 0 for none), the query it      *)
(*            processed and the result of process_callback                 *)
(*   codec    one CallbackData value on its way through to_string and      *)
(*            from_str (SpecCodec)                                         *)
(*   cells    one Board written with set_cell (SpecBoard)                  *)
(*   checked  what check_winner returned for cells, or "unchecked"         *)
(***************************************************************************)
VARIABLES game, storage, heap, owner, readers, writer, task, codec, cells, checked

vars == <<game, storage, heap, owner, readers, writer, task, codec, cells, checked>>

storeVars == <<storage, heap, owner, readers, writer, task>>

pureVars == <<codec, cells, checked>>

\* a CallbackData value that is neither encoded nor decoded yet
CodecInit(data) ==
    [stage |-> "command", data |-> data, token |-> <<>>,
     parsed |-> [ok |-> FALSE, value |-> None]]

\* the codec and the board under test at rest
PureInit ==
    /\ codec = CodecInit(Unknown)
    /\ cells = BoardEmpty
    /\ checked = "unchecked"

NoQuery == [from |-> 0, data |-> <<>>]

TaskInit == [pc |-> "start", key |-> 0, value |-> 0, q |-> NoQuery, result |-> None]

\* ConcurrentHashMap::new, and no handler running yet
StoreInit ==
    /\ storage = EmptyMap
    /\ heap = <<>>
    /\ owner = <<>>
    /\ readers = {}
    /\ writer = 0
    /\ task = [t \in Tasks |-> TaskInit]

(***************************************************************************)
(* bot.rs: callback_handler, one action per step between two awaits        *)
(***************************************************************************)
\* the dispatcher starts callback_handler for a query of session key
Start(t, key) ==
    /\ task[t].pc = "start"
    /\ task' = [task EXCEPT ![t].pc = "get", ![t].key = key]
    /\ UNCHANGED <<pureVars, game, storage, heap, owner, readers, writer>>

\* ConcurrentHashMap::get: self.read().await
GetRead(t) ==
    /\ task[t].pc = "get"
    /\ writer = 0
    /\ readers' = readers \cup {t}
    /\ task' = [task EXCEPT ![t].pc = "read"]
    /\ UNCHANGED <<pureVars, game, storage, heap, owner, writer>>

\* get whose read guard is still held when get_or_default goes on
Get_keeps_read(t) ==
    /\ task[t].pc = "read"
    /\ IF task[t].key \in DOMAIN storage
       THEN /\ task' = [task EXCEPT ![t].pc = "lock",
                                    ![t].value = storage[task[t].key]]
            /\ UNCHANGED <<heap, owner>>
       ELSE /\ heap' = Append(heap, GameDefault)
            /\ owner' = Append(owner, 0)
            /\ task' = [task EXCEPT ![t].pc = "write", ![t].value = Len(heap) + 1]
    /\ UNCHANGED <<pureVars, game, storage, readers, writer>>

\* ConcurrentHashMap::get: lock.get(key).cloned(), the read guard is dropped; then
\* the match of get_or_default, which on None allocates the default value
Get(t) ==
    /\ task[t].pc = "read"
    /\ readers' = readers \ {t}
    /\ IF task[t].key \in DOMAIN storage
       THEN /\ task' = [task EXCEPT ![t].pc = "lock",
                                    ![t].value = storage[task[t].key]]
            /\ UNCHANGED <<heap, owner>>
       ELSE /\ heap' = Append(heap, GameDefault)
            /\ owner' = Append(owner, 0)
            /\ task' = [task EXCEPT ![t].pc = "write", ![t].value = Len(heap) + 1]
    /\ UNCHANGED <<pureVars, game, storage, writer>>

\* ConcurrentHashMap::get_or_default: self.write().await
Write(t) ==
    /\ task[t].pc = "write"
    /\ writer = 0
    /\ readers = {}
    /\ writer' = t
    /\ task' = [task EXCEPT ![t].pc = "insert"]
    /\ UNCHANGED <<pureVars, game, storage, heap, owner, readers>>

\* ConcurrentHashMap::get_or_default: lock.insert(key.clone(), value.clone()), the
\* write guard is dropped and value is returned
Insert(t) ==
    /\ task[t].pc = "insert"
    /\ storage' = MapInsert(storage, task[t].key, task[t].value)
    /\ writer' = 0
    /\ task' = [task EXCEPT ![t].pc = "lock"]
    /\ UNCHANGED <<pureVars, game, heap, owner, readers>>

\* callback_handler: state.lock().await
Lock(t) ==
    /\ task[t].pc = "lock"
    /\ owner[task[t].value] = 0
    /\ owner' = [owner EXCEPT ![task[t].value] = t]
    /\ task' = [task EXCEPT ![t].pc = "process"]
    /\ UNCHANGED <<pureVars, game, storage, heap, readers, writer>>

\* callback_handler: lock.process_callback(q.clone())
Process(t, q) ==
    /\ task[t].pc = "process"
    /\ LET done == process_callback(heap[task[t].value], q)
       IN  /\ heap' = [heap EXCEPT ![task[t].value] = done.game]
           /\ task' = [task EXCEPT ![t].pc = "reply", ![t].q = q,
                                   ![t].result = done.result]
    /\ UNCHANGED <<pureVars, game, storage, owner, readers, writer>>

\* callback_handler: the reply to the query is sent (update_message or the alert)
\* and the MutexGuard is dropped as the handler returns
Reply(t) ==
    /\ task[t].pc = "reply"
    /\ owner' = [owner EXCEPT ![task[t].value] = 0]
    /\ task' = [task EXCEPT ![t].pc = "done"]
    /\ UNCHANGED <<pureVars, game, storage, heap, readers, writer>>

Init ==
    /\ game = GameDefault
    /\ StoreInit
    /\ PureInit

Next ==
    \E t \in Tasks :
        \/ \E key \in Keys : Start(t, key)
        \/ GetRead(t)
        \/ Get(t)
        \/ Write(t)
        \/ Insert(t)
        \/ Lock(t)
        \/ \E q \in HandlerQueries : Process(t, q)
        \/ Reply(t)

Spec == Init /\ [][Next]_vars

(***************************************************************************)
(* The handlers under fair scheduling. What a handler waits for and what   *)
(* it holds does not depend on the command, so every task processes the    *)
(* Join of its own user.                                                   *)
(***************************************************************************)
\* one step of the started handler t
Step(t) ==
    \/ GetRead(t)
    \/ Get(t)
    \/ Write(t)
    \/ Insert(t)
    \/ Lock(t)
    \/ Process(t, [from |-> t, data |-> Some(to_string(Join))])
    \/ Reply(t)

NextFair ==
    \E t \in Tasks :
        \/ \E key \in Keys : Start(t, key)
        \/ Step(t)

\* the runtime polls every task that can go on, and RwLock and Mutex hand the
\* lock to a waiting task once it is free
SpecFair == Init /\ [][NextFair]_vars /\ \A t \in Tasks : WF_vars(Step(t))

(***************************************************************************)
(* One session driven by a sequence of callback queries, as the handlers   *)
(* holding its Mutex drive it one after the other.                         *)
(***************************************************************************)
\* sum of the values of a score map
RECURSIVE ScoreSum(_)
ScoreSum(score) ==
    IF DOMAIN score = {} THEN 0
    ELSE LET u == CHOOSE k \in DOMAIN score : TRUE
         IN  score[u] + ScoreSum([k \in (DOMAIN score) \ {u} |-> score[k]])

InitGame ==
    /\ game = GameDefault
    /\ StoreInit
    /\ PureInit

\* the games Game::process_callback leaves when it is called with the queries of
\* Queries; queries with the same effect give the same game
Outcomes(g) == {process_callback(g, q).game : q \in Queries}

\* Game::process_callback on one query; once the scores reach the bound of the
\* model the finished round can still be restarted, and no further round is played
Callback ==
    /\ ScoreSum(game.score) >= MaxScore => game.state[1] = "Finished"
    /\ \E after \in Outcomes(game) : game' = after
    /\ UNCHANGED <<storeVars, pureVars>>

NextGame == Callback

SpecGame == InitGame /\ [][NextGame]_vars

(***************************************************************************)
(* Claims about the session store and the handler (specification Spec)     *)
(***************************************************************************)
\* the positions of a task to which get_or_default has returned its Arc
Returned == {"lock", "process", "reply", "done"}

\* C1: every caller to which get_or_default has returned holds the Session the
\* store maps its key to, so that all callers of one key hold the same Session
\* and none is left with a Session that is not reachable under the key.
C1_CallersShareStoredSession ==
    \A t \in Tasks :
        task[t].pc \in Returned =>
            /\ task[t].key \in DOMAIN storage
            /\ storage[task[t].key] = task[t].value

\* C2: at most one task at a time is inside the section of callback_handler that
\* validates and applies a command (process_callback under the session lock) for
\* one session key.
C2_OneCommandPerKey ==
    \A t1 \in Tasks : \A t2 \in Tasks :
        (/\ t1 # t2
         /\ task[t1].pc = "process"
         /\ task[t2].pc = "process") => task[t1].key # task[t2].key

\* C3: once the store maps a key to a Session the binding is never replaced, so
\* every later lookup of the key returns that Session and sees every command that
\* was applied to it.
C3_BindingNeverReplaced ==
    [][\A key \in DOMAIN storage :
           key \in DOMAIN storage' /\ storage'[key] = storage[key]]_vars

(***************************************************************************)
(* Claims about one session (specification SpecGame).  They are stated of  *)
(* process_callback applied to every reachable game and every query.       *)
(***************************************************************************)
JoinQuery(u) == [from |-> u, data |-> Some(to_string(Join))]

PlaceQuery(u, x, y) == [from |-> u, data |-> Some(to_string(Place(x, y)))]

\* the queries whose data is the token of a command other than Place
OtherQueries ==
    [from : Users,
     data : {Some(to_string(Join)), Some(to_string(Restart)), Some(to_string(Unknown))}]

Cells == 0..MAX_INDEX

\* the coordinates of the board and the first one beyond it
Coords == 0..BOARD_SIZE

\* the users seated in a game
Seated(g) == {g.players[s] : s \in DOMAIN g.players}

\* the rows, the columns and the two diagonals of the board, as sets of <<x, y>>
Lines ==
    {{<<x, y>> : x \in Cells} : y \in Cells}
        \cup {{<<x, y>> : y \in Cells} : x \in Cells}
        \cup {{<<i, i>> : i \in Cells}, {<<i, MAX_INDEX - i>> : i \in Cells}}

\* some line of the board holds shape in all its cells
LineOf(board, shape) ==
    \E line \in Lines : \A index \in line : board[index[2] + 1][index[1] + 1] = shape

IsTurn(g) == g.state[1] = "Turn"

\* C4: whenever process_callback returns an error, in any phase and for any sender
\* and token, the board, the players, the score and the phase are as before the
\* call.
C4_ErrorLeavesGameUnchanged ==
    \A q \in Queries :
        LET done == process_callback(game, q)
        IN  done.result # Ok => done.game = game

\* C4 witness: a turn with a mark on the board in which queries are refused with
\* each of the six errors
C4_Witness ==
    /\ IsTurn(game)
    /\ game.board # BoardEmpty
    /\ \A e \in {OutOfBounds, AlreadyOccupied, IllegalState, Permission, NoData,
                 UnknownCommand} :
           \E q \in Queries :
               process_callback(game, q) = Return(game, e)

\* C5: in Waiting a Join of a user not yet seated seats it at the first free shape
\* of X, O with score 0; after the first Join the game is still Waiting, after the
\* Join of a second user it is Turn(X) with an empty board, the first joiner at X
\* and the second at O.
C5_JoinSeatsInOrder ==
    \A u \in Users :
        (game.state = Waiting /\ u \notin Seated(game)) =>
            LET done == process_callback(game, JoinQuery(u))
            IN  /\ done.result = Ok
                /\ done.game.score = MapInsert(game.score, u, 0)
                /\ DOMAIN game.players \in {{}, {X}}
                /\ DOMAIN game.players = {} =>
                       /\ done.game.players = MapInsert(EmptyMap, X, u)
                       /\ done.game.state = Waiting
                       /\ done.game.board = BoardEmpty
                /\ DOMAIN game.players = {X} =>
                       /\ done.game.players = MapInsert(game.players, O, u)
                       /\ done.game.players[X] = game.players[X]
                       /\ done.game.state = Turn(X)
                       /\ done.game.board = BoardEmpty

\* C5 witness: the first Join has seated user 2 at X and the Join of user 1 starts
\* the round
C5_Witness ==
    /\ game.state = Waiting
    /\ game.players = MapInsert(EmptyMap, X, 2)
    /\ game.score = MapInsert(EmptyMap, 2, 0)
    /\ process_callback(game, JoinQuery(1)).game.state = Turn(X)
    /\ process_callback(game, JoinQuery(1)).game.players[O] = 1

\* C6: a second Join of the user already seated fails with Permission; the game
\* stays Waiting and the user is seated at exactly one shape.
C6_SecondJoinRefused ==
    \A u \in Users :
        (game.state = Waiting /\ u \in Seated(game)) =>
            LET done == process_callback(game, JoinQuery(u))
            IN  /\ done.result = Permission
                /\ done.game.state = Waiting
                /\ Cardinality({s \in DOMAIN done.game.players :
                                    done.game.players[s] = u}) = 1

\* C6 witness: user 3 is seated and joins again
C6_Witness ==
    /\ game.state = Waiting
    /\ Seated(game) = {3}
    /\ process_callback(game, JoinQuery(3)).result = Permission

\* C7: in Turn(m) every command other than Place (Join, Restart, Unknown) fails
\* with UnknownCommand, whoever sends it.
C7_TurnRefusesOthersAsUnknownCommand ==
    \A q \in OtherQueries :
        IsTurn(game) => process_callback(game, q).result = UnknownCommand

\* C8: in Turn(m) a Place, whatever its coordinates, from a user other than the one
\* seated at m fails with Permission and leaves the board, the phase, the seats and
\* the scores unchanged.
C8_WrongSenderRefused ==
    \A u \in Users : \A x \in Coords : \A y \in Coords :
        (IsTurn(game) /\ game.state[2] \in DOMAIN game.players
            /\ game.players[game.state[2]] # u) =>
            process_callback(game, PlaceQuery(u, x, y)) = Return(game, Permission)

\* C8 witness: it is O's turn and the user seated at X as well as the outsider are
\* refused on a free cell
C8_Witness ==
    /\ game.state = Turn(O)
    /\ game.board[1][1] = None
    /\ \A u \in Users \ {game.players[O]} :
           process_callback(game, PlaceQuery(u, 0, 0)).result = Permission
    /\ process_callback(game, PlaceQuery(game.players[O], 0, 0)).result = Ok

\* the in-bounds Place queries of the user whose turn it is on a free cell
Accepted(x, y) ==
    /\ IsTurn(game)
    /\ game.state[2] \in DOMAIN game.players
    /\ game.board[y + 1][x + 1] = None

\* C9: when an accepted Place of the user seated at m completes a line of three m,
\* the phase becomes Finished(Victory{winner: m}), the score of the user seated at
\* m grows by exactly 1 and no other score changes.
C9_WinScoresTheMover ==
    \A x \in Cells : \A y \in Cells :
        Accepted(x, y) =>
            LET m == game.state[2]
                mover == game.players[m]
                placed == [game.board EXCEPT ![y + 1][x + 1] = m]
                done == process_callback(game, PlaceQuery(mover, x, y))
            IN  LineOf(placed, m) =>
                    /\ done.result = Ok
                    /\ done.game.board = placed
                    /\ done.game.state = Finished(Victory(m))
                    /\ done.game.players = game.players
                    /\ mover \in DOMAIN game.score
                    /\ done.game.score =
                           [game.score EXCEPT ![mover] = game.score[mover] + 1]

\* C9 witness: O has completed a line and the user seated at O has the point
C9_Witness ==
    /\ game.state = Finished(Victory(O))
    /\ LineOf(game.board, O)
    /\ game.score[game.players[O]] = 1
    /\ game.score[game.players[X]] = 0

\* the board has no free cell
Full(board) == \A x \in Cells : \A y \in Cells : board[y + 1][x + 1] # None

\* C10: an accepted Place that fills the last free cell gives Finished(Draw) with
\* the scores unchanged exactly if no line is complete; if it also completes a
\* line the result is Finished(Victory), never Draw.
C10_DrawOnlyWithoutLine ==
    \A x \in Cells : \A y \in Cells :
        Accepted(x, y) =>
            LET m == game.state[2]
                placed == [game.board EXCEPT ![y + 1][x + 1] = m]
                done == process_callback(game, PlaceQuery(game.players[m], x, y))
                line == LineOf(placed, X) \/ LineOf(placed, O)
            IN  Full(placed) =>
                    /\ done.result = Ok
                    /\ ~line <=> (/\ done.game.state = Finished(Draw)
                                  /\ done.game.score = game.score)
                    /\ line => (/\ done.game.state[1] = "Finished"
                                /\ done.game.state[2][1] = "Victory")

\* C10 witness: the ninth mark has completed a line
C10_Witness ==
    /\ Full(game.board)
    /\ game.state = Finished(Victory(X))
    /\ LineOf(game.board, X)

RestartQuery(u) == [from |-> u, data |-> Some(to_string(Restart))]

IsFinished(g) == g.state[1] = "Finished"

\* C11: in Finished a Restart of either seated user empties the board, sets the
\* phase to Turn(X) and exchanges the users seated at X and O while every score
\* entry stays as it is; a Restart of a user that is not seated fails with
\* Permission.
C11_RestartSwapsSeats ==
    \A u \in Users :
        IsFinished(game) =>
            LET done == process_callback(game, RestartQuery(u))
            IN  IF u \in Seated(game)
                THEN /\ done.result = Ok
                     /\ done.game.board = BoardEmpty
                     /\ done.game.state = Turn(X)
                     /\ DOMAIN done.game.players = {X, O}
                     /\ done.game.players[X] = game.players[O]
                     /\ done.game.players[O] = game.players[X]
                     /\ done.game.score = game.score
                ELSE done = Return(game, Permission)

\* C11 witness: a round was won at X and restarted, so that the winner now sits at
\* O with its point and the other user opens the new round
C11_Witness ==
    /\ game.state = Turn(X)
    /\ game.board = BoardEmpty
    /\ game.score[game.players[O]] = 1
    /\ game.score[game.players[X]] = 0

(***************************************************************************)
(* The codec on its own: a command is encoded with to_string and the token *)
(* is decoded with from_str.                                               *)
(***************************************************************************)
Commands ==
    {Join, Restart, Unknown} \cup {Place(x, y) : x \in 0..MaxNumber, y \in 0..MaxNumber}

InitCodec ==
    /\ game = GameDefault
    /\ StoreInit
    /\ codec \in {CodecInit(data) : data \in Commands}
    /\ cells = BoardEmpty
    /\ checked = "unchecked"

\* CallbackData::to_string
Encode ==
    /\ codec.stage = "command"
    /\ codec' = [codec EXCEPT !.stage = "encoded", !.token = to_string(codec.data)]
    /\ UNCHANGED <<game, storeVars, cells, checked>>

\* str::parse::<CallbackData>
Decode ==
    /\ codec.stage = "encoded"
    /\ codec' = [codec EXCEPT !.stage = "decoded", !.parsed = FromStr(codec.token)]
    /\ UNCHANGED <<game, storeVars, cells, checked>>

NextCodec == Encode \/ Decode

SpecCodec == InitCodec /\ [][NextCodec]_vars

\* C12: for every command (Join, Restart, Unknown and Place{x, y} with x, y up to
\* the bound) decoding the encoded token succeeds and returns the same command,
\* and no other command is encoded to the same token.
C12_RoundTrip ==
    /\ codec.stage \in {"encoded", "decoded"} =>
           \A other \in Commands : to_string(other) = codec.token => other = codec.data
    /\ codec.stage = "decoded" => codec.parsed = [ok |-> TRUE, value |-> codec.data]

\* C12 witness: Place{x: 10, y: 3} went through "place:10:3" and came back
C12_Witness ==
    /\ codec.stage = "decoded"
    /\ codec.data = Place(10, 3)
    /\ codec.token = <<"p", "l", "a", "c", "e", ":", "1", "0", ":", "3">>
    /\ codec.parsed.ok

(***************************************************************************)
(* The board on its own: cells are written with set_cell, which overwrites *)
(* without a check, and the board is examined with check_winner.           *)
(***************************************************************************)
InitBoard ==
    /\ game = GameDefault
    /\ StoreInit
    /\ PureInit

\* Board::set_cell
SetCell(index, shape) ==
    /\ cells' = set_cell(cells, index, shape)
    /\ checked' = "unchecked"
    /\ UNCHANGED <<game, storeVars, codec>>

\* Board::check_winner
CheckWinner ==
    /\ checked = "unchecked"
    /\ checked' = check_winner(cells)
    /\ UNCHANGED <<game, storeVars, codec, cells>>

NextBoard ==
    \/ \E x \in Cells : \E y \in Cells : \E shape \in {X, O} : SetCell(<<x, y>>, shape)
    \/ CheckWinner

SpecBoard == InitBoard /\ [][NextBoard]_vars

\* C13: for every board check_winner returns a mark exactly if one of the three
\* rows, three columns and two diagonals holds one mark in all three cells; the
\* mark returned is the mark of such a line, and a board without a completed line
\* gives none however full it is.
C13_WinnerIffLine ==
    checked # "unchecked" =>
        /\ checked # None <=> (LineOf(cells, X) \/ LineOf(cells, O))
        /\ checked # None => LineOf(cells, checked)

\* C13 witness: O holds the diagonal from the top right to the bottom left on a
\* board where X holds no line, and check_winner returned O
C13_Witness ==
    /\ checked = O
    /\ cells[1][3] = O /\ cells[2][2] = O /\ cells[3][1] = O
    /\ ~LineOf(cells, X)
    /\ \E r \in 1..BOARD_SIZE : \E c \in 1..BOARD_SIZE : cells[r][c] = X

\* C14: over any sequence of commands on one session a score entry never
\* decreases, is never set back to 0 and is never removed, and every Restart
\* carries it over unchanged.
C14_ScoreNeverDecreases ==
    [][/\ \A u \in DOMAIN game.score :
              /\ u \in DOMAIN game'.score
              /\ game'.score[u] >= game.score[u]
       /\ (IsFinished(game) /\ IsTurn(game')) => game'.score = game.score]_vars

\* C14 witness: a user that won a round was carried with its point through the
\* Restart
C14_Witness ==
    /\ game.state = Turn(X)
    /\ game.board = BoardEmpty
    /\ \E u \in DOMAIN game.score : game.score[u] = 1

\* a query of user u carrying the token of command data
Query(u, data) == [from |-> u, data |-> Some(to_string(data))]

Places == {Place(x, y) : x \in Coords, y \in Coords}

\* C15: in Waiting every well-formed command other than Join (Restart, Place,
\* Unknown) and in Finished every well-formed command other than Restart (Join,
\* Place, Unknown) fails with UnknownCommand, whoever sends it.
C15_OtherCommandsUnknown ==
    \A u \in Users :
        /\ game.state = Waiting =>
               \A data \in {Restart, Unknown} \cup Places :
                   process_callback(game, Query(u, data)).result = UnknownCommand
        /\ IsFinished(game) =>
               \A data \in {Join, Unknown} \cup Places :
                   process_callback(game, Query(u, data)).result = UnknownCommand

\* C15 witness: a round is finished and the Join of a user that is not seated is
\* refused with UnknownCommand
C15_Witness ==
    /\ IsFinished(game)
    /\ \E u \in Users \ Seated(game) :
           process_callback(game, JoinQuery(u)) = Return(game, UnknownCommand)

\* C16: in every reachable game no user is seated at two shapes and every seated
\* user has a score entry (a seat is never vacated, so the seated users are all
\* that ever were seated); in Waiting fewer than two shapes are seated and the
\* board is empty; in Turn and Finished X and O are both seated, by two
\* different users.
C16_SeatsWellFormed ==
    /\ \A s1 \in DOMAIN game.players : \A s2 \in DOMAIN game.players :
           game.players[s1] = game.players[s2] => s1 = s2
    /\ Seated(game) \subseteq DOMAIN game.score
    /\ DOMAIN game.players \subseteq {X, O}
    /\ game.state = Waiting =>
           /\ Cardinality(DOMAIN game.players) < 2
           /\ game.board = BoardEmpty
    /\ (IsTurn(game) \/ IsFinished(game)) =>
           /\ DOMAIN game.players = {X, O}
           /\ game.players[X] # game.players[O]

\* C16 witness: a drawn round between two users, both with a score entry
C16_Witness ==
    /\ game.state = Finished(Draw)
    /\ Full(game.board)
    /\ Cardinality(Seated(game)) = 2
    /\ Seated(game) = DOMAIN game.score

\* C17: in Turn(m) an accepted Place{x, y} of the user seated at m that neither
\* completes a line nor fills the board sets exactly cell (x, y) to m, leaves
\* the other cells, the seats and the scores as they are and gives Turn(the other
\* shape); a round starts with X to move, so the two users alternate.
C17_PlaceTogglesTurn ==
    /\ (IsTurn(game) /\ game.board = BoardEmpty) => game.state = Turn(X)
    /\ \A x \in Cells : \A y \in Cells :
           Accepted(x, y) =>
               LET m == game.state[2]
                   placed == [game.board EXCEPT ![y + 1][x + 1] = m]
                   done == process_callback(game, PlaceQuery(game.players[m], x, y))
               IN  (~LineOf(placed, X) /\ ~LineOf(placed, O) /\ ~Full(placed)) =>
                       /\ done.result = Ok
                       /\ done.game.board = placed
                       /\ done.game.players = game.players
                       /\ done.game.score = game.score
                       /\ done.game.state = Turn(IF m = X THEN O ELSE X)

\* C17 witness: X has placed at (2, 0) and nothing else is on the board, and it
\* is the turn of O
C17_Witness ==
    /\ game.state = Turn(O)
    /\ game.board = [BoardEmpty EXCEPT ![1][3] = X]

\* the board after a step keeps every mark of the board before it
KeepsMarks(before, after) ==
    \A x \in Cells : \A y \in Cells :
        before[y + 1][x + 1] # None => after[y + 1][x + 1] = before[y + 1][x + 1]

\* C18: in Turn(m) a Place{x, y} of the user seated at m fails with OutOfBounds
\* when x > 2 or y > 2 and with AlreadyOccupied when cell (x, y) holds a mark;
\* and no step changes or clears a set cell, except the Restart that leaves
\* Finished, which replaces the whole board by the empty one.
C18_SetCellsStay ==
    /\ []((IsTurn(game) /\ game.state[2] \in DOMAIN game.players) =>
           LET mover == game.players[game.state[2]]
           IN  \A x \in Coords : \A y \in Coords :
                   LET done == process_callback(game, Query(mover, Place(x, y)))
                   IN  /\ (x > MAX_INDEX \/ y > MAX_INDEX) => done.result = OutOfBounds
                       /\ (x <= MAX_INDEX /\ y <= MAX_INDEX
                               /\ game.board[y + 1][x + 1] # None) =>
                              done.result = AlreadyOccupied)
    /\ [][\/ KeepsMarks(game.board, game'.board)
          \/ /\ IsFinished(game)
             /\ IsTurn(game')
             /\ game'.board = BoardEmpty]_vars

\* C18 witness: it is the turn of O, X holds the centre, and the Place of the
\* user seated at O on the centre is refused with AlreadyOccupied and the one
\* at (3, 0) with OutOfBounds
C18_Witness ==
    /\ game.state = Turn(O)
    /\ game.board[2][2] = X
    /\ process_callback(game, PlaceQuery(game.players[O], 1, 1)).result = AlreadyOccupied
    /\ process_callback(game, PlaceQuery(game.players[O], 3, 0)).result = OutOfBounds

\* the number of cells of the board that hold shape
Count(board, shape) ==
    Cardinality({index \in Cells \X Cells : board[index[2] + 1][index[1] + 1] = shape})

\* C19: in Turn(m) the board has a free cell and no completed line, and X has
\* placed as often as O if m = X and once more if m = O, so a round has at most
\* 9 accepted Place commands; in Finished(Victory{winner}) the winner is the
\* shape that placed last, it holds a line and the other shape holds none.
C19_RoundDecidedByLastMover ==
    /\ IsTurn(game) =>
           /\ ~Full(game.board)
           /\ ~LineOf(game.board, X)
           /\ ~LineOf(game.board, O)
           /\ Count(game.board, X) - Count(game.board, O)
                  = IF game.state[2] = X THEN 0 ELSE 1
    /\ (IsFinished(game) /\ game.state # Finished(Draw)) =>
           LET winner == game.state[2][2]
               other == IF winner = X THEN O ELSE X
           IN  /\ winner \in {X, O}
               /\ Count(game.board, X) - Count(game.board, O)
                      = IF winner = X THEN 1 ELSE 0
               /\ LineOf(game.board, winner)
               /\ ~LineOf(game.board, other)
    /\ Count(game.board, X) + Count(game.board, O) <= (MAX_INDEX + 1) * (MAX_INDEX + 1)

\* C19 witness: O has won with its third mark, after three marks of X
C19_Witness ==
    /\ game.state = Finished(Victory(O))
    /\ Count(game.board, O) = 3
    /\ Count(game.board, X) = 3

\* the positions at which a handler waits for a lock: the read lock of the store,
\* its write lock, and the Mutex of the session
Waits == {"get", "write", "lock"}

\* handler t holds a guard of the store's RwLock or the guard of some session
Holds(t) ==
    \/ t \in readers
    \/ writer = t
    \/ \E i \in DOMAIN owner : owner[i] = t

\* C20: a handler that waits for the store's read lock, for its write lock or for
\* its session's Mutex holds no lock at all (so the read guard of the lookup is
\* gone before the write lock is requested), and under fair scheduling every
\* handler that has started gets its session's Mutex and runs to its end.
C20_HandlersComplete ==
    /\ [](\A t \in Tasks : task[t].pc \in Waits => ~Holds(t))
    /\ \A t \in Tasks : (task[t].pc # "start") ~> (task[t].pc = "done")

\* C20 witness: all handlers ran on the same key and are done, and every lock is
\* free
C20_Witness ==
    /\ \A t \in Tasks : task[t].pc = "done" /\ task[t].key = 1
    /\ readers = {}
    /\ writer = 0
    /\ \A i \in DOMAIN owner : owner[i] = 0

====
